---- MODULE Spec2Model ----
(***************************************************************************)
(* Model of glyph's application harness (glyph/application.py: GPRunner,   *)
(* random_state, Application, checkpoint/resume) and of the ODE stepping   *)
(* helper of the control example (examples/control/control_problem.py:     *)
(* odeint, integrate).                                                     *)
(*                                                                         *)
(* The state of Python's random module is modelled as a stream position:   *)
(* the seed the stream was started from and the number of values drawn     *)
(* since.  Two states are equal exactly when both agree.                   *)
(***************************************************************************)
EXTENDS Integers, Sequences, FiniteSets, TLC

\* ------------------------------------------------------------------ bounds
MaxPop == 1          \* pop_size ranges over 0..MaxPop
MaxGen == 3          \* num_generations ranges over 0..MaxGen
MaxSeed == 1         \* seed ranges over 0..MaxSeed
MaxFreq == 2         \* integer checkpoint_frequency ranges over 0..MaxFreq
MaxRuns == 1         \* calls of run() on one Application object
MaxResumes == 1      \* calls of Application.from_checkpoint()
MaxLen == 3          \* len(x) ranges over 1..MaxLen
MaxX == 2            \* the x values range over 1..MaxX
MaxDim == 2          \* len(yinit) ranges over 1..MaxDim

\* what the code called between two random_state blocks (the assessment
\* runner, the break condition) draws from the global random module during
\* one call: nothing, or a value
EnvDraws == {0, 1}

VARIABLES
    \* Application and the process it runs in
    args,            \* Application.args (argparse.Namespace)
    checkpoint_file, \* Application.checkpoint_file: "None" or "F"
    gp_runner,       \* Application.gp_runner (a GPRunner)
    pareto_fronts,   \* Application.pareto_fronts
    initialized,     \* Application._initialized
    rng,             \* state of the global random module
    file,            \* what the checkpoint file F holds
    pc,              \* position of Application.run(): idle, loop, step, returned, raised
    iterations,      \* local variable of run()
    ret,             \* value returned by run(), once it returned
    \* history of the calls made, recorded for the properties
    lastEvent,       \* last thing the current run() did: none, init, break_condition, step
    broke,           \* break_condition returned true in the current run()
    updates,         \* Application._update() calls of the current run()
    lastUpdate,      \* the last Application._update() of the current run(): whether
                     \* there was one, its generation and whether it saved
    callInit,        \* Application._initialized when the current run() was called
    callStep,        \* gp_runner.step_count when the current run() was called
    runs,            \* number of run() calls on the current Application object
    resumes,         \* number of from_checkpoint() calls
    \* odeint / integrate
    x,               \* the x values
    dim,             \* len(yinit)
    odepc,           \* position of the odeint generator: start, loop, done, integrated
    idx,             \* index into x of the value the generator handles next
    yielded,         \* the values the generator yielded so far
    failedAt,        \* index into x of the integration that was not successful, or 0
    result           \* what integrate() returned

appVars == <<args, checkpoint_file, gp_runner, pareto_fronts, initialized, rng, file,
             pc, iterations, ret, lastEvent, broke, updates, lastUpdate,
             callInit, callStep, runs, resumes>>
odeVars == <<x, dim, odepc, idx, yielded, failedAt, result>>
vars == <<appVars, odeVars>>

\* ------------------------------------------------------- the random module
\* state of a generator nobody seeded (seeded from the operating system)
UnseededState == [seeded |-> FALSE, seed |-> 0, pos |-> 0]

\* random.seed(n)
Seed(n) == [seeded |-> TRUE, seed |-> n, pos |-> 0]

\* n values drawn from the generator in state s
Draw(s, n) == [s EXCEPT !.pos = @ + n]

\* --------------------------------------------------------------- GPRunner
\* GPRunner.__init__: no population, no step_count, no _prev_state yet.
\* blocks, block_start, block_end and inits record the runner's history:
\* how many random_state blocks it ran, the state the last one started and
\* ended in, and how often init() was called.
NewRunner ==
    [has_step_count |-> FALSE, step_count |-> 0, population |-> 0,
     halloffame |-> 0, logbook |-> <<>>,
     has_prev |-> FALSE, prev_state |-> UnseededState,
     has_tmp |-> FALSE, tmp_state |-> UnseededState,
     blocks |-> 0, block_start |-> UnseededState, block_end |-> UnseededState,
     inits |-> 0]

\* random_state without the rng.setstate(_prev_state) on entry: the block
\* draws from wherever the global module stands
random_state_noSetstate(cls, g, n) ==
    LET tmp   == g
        start == g
        end   == Draw(start, n)
    IN [runner |-> [cls EXCEPT !.has_tmp = TRUE, !.tmp_state = tmp,
                               !.has_prev = TRUE, !.prev_state = end,
                               !.blocks = @ + 1, !.block_start = start,
                               !.block_end = end],
        rng |-> tmp]

\* with random_state(cls): <body drawing n values>
\* g is the global state on entry; yields the runner and the global state on exit
random_state(cls, g, n) ==
    LET tmp   == g                                              \* cls._tmp_state = rng.getstate()
        start == IF cls.has_prev THEN cls.prev_state ELSE g     \* rng.setstate(getattr(cls, '_prev_state', rng.getstate()))
        end   == Draw(start, n)                                 \* the body
    IN [runner |-> [cls EXCEPT !.has_tmp = TRUE, !.tmp_state = tmp,
                               !.has_prev = TRUE, !.prev_state = end,   \* cls._prev_state = rng.getstate()
                               !.blocks = @ + 1, !.block_start = start,
                               !.block_end = end],
        rng |-> tmp]                                            \* rng.setstate(cls._tmp_state)

\* GPRunner._update: the assessment runner (which may draw d values from the
\* global module), the hall of fame and the logbook
GPRunner_update(r, g, d) ==
    [runner |-> [r EXCEPT !.halloffame = @ + 1,
                          !.logbook = Append(@, r.step_count)],
     rng |-> Draw(g, d)]

\* GPRunner.init(pop_size): create_population draws one value per individual
GPRunner_init(r, g, pop_size, d) ==
    LET r0 == [r EXCEPT !.halloffame = 0, !.logbook = <<>>,
                        !.has_step_count = TRUE, !.step_count = 0,
                        !.inits = @ + 1]
        b  == random_state(r0, g, pop_size)
        r1 == [b.runner EXCEPT !.population = pop_size]
    IN GPRunner_update(r1, b.rng, d)

\* GPRunner.step(): evolve draws one value per individual
GPRunner_step(r, g, d) ==
    LET b  == random_state(r, g, r.population)
        r1 == [b.runner EXCEPT !.step_count = @ + 1]
    IN GPRunner_update(r1, b.rng, d)

\* ------------------------------------------------------------ Application
\* Application.valid_checkpointing
valid_checkpointing(a, cf) == cf # "None" /\ a.checkpoint_frequency.is_int

\* Application.checkpoint(): safe(file, args, runner, random_state, pareto_fronts)
checkpoint(a, r, g, pf) ==
    [exists |-> TRUE, args |-> a, runner |-> r, random_state |-> g,
     pareto_fronts |-> pf]

NoFile ==
    [exists |-> FALSE, args |-> [pop_size |-> 0, num_generations |-> 0, seed |-> 0,
                                 checkpoint_frequency |-> [is_int |-> FALSE, n |-> 0]],
     runner |-> NewRunner, random_state |-> UnseededState, pareto_fronts |-> <<>>]

\* Application._update() that counts the fronts instead of the generations
Application_update_offByOne(a, cf, r, pf, g, f) ==
    LET pf2 == Append(pf, r.halloffame)
    IN IF valid_checkpointing(a, cf) /\ a.checkpoint_frequency.n = 0
       THEN [pareto_fronts |-> pf2, file |-> f, saved |-> FALSE, raised |-> TRUE]
       ELSE IF valid_checkpointing(a, cf)
               /\ (r.step_count + 1) % a.checkpoint_frequency.n = 0
       THEN [pareto_fronts |-> pf2, file |-> checkpoint(a, r, g, pf2),
             saved |-> TRUE, raised |-> FALSE]
       ELSE [pareto_fronts |-> pf2, file |-> f, saved |-> FALSE, raised |-> FALSE]

\* Application._update(): append the front, then checkpoint when due.
\* step_count % 0 raises ZeroDivisionError after the front was appended.
Application_update(a, cf, r, pf, g, f) ==
    LET pf2 == Append(pf, r.halloffame)
    IN IF valid_checkpointing(a, cf) /\ a.checkpoint_frequency.n = 0
       THEN [pareto_fronts |-> pf2, file |-> f, saved |-> FALSE, raised |-> TRUE]
       ELSE IF valid_checkpointing(a, cf) /\ r.step_count % a.checkpoint_frequency.n = 0
       THEN [pareto_fronts |-> pf2, file |-> checkpoint(a, r, g, pf2),
             saved |-> TRUE, raised |-> FALSE]
       ELSE [pareto_fronts |-> pf2, file |-> f, saved |-> FALSE, raised |-> FALSE]

ArgsSet ==
    [pop_size : 0..MaxPop, num_generations : 0..MaxGen, seed : 0..MaxSeed,
     checkpoint_frequency : {[is_int |-> FALSE, n |-> 0]}
                            \cup [is_int : {TRUE}, n : 0..MaxFreq]]

\* no Application._update() was made yet
NoUpdate == [made |-> FALSE, gen |-> 0, saved |-> FALSE]

\* nothing is being integrated
OdeIdle ==
    /\ x = <<1>> /\ dim = 1 /\ odepc = "start" /\ idx = 1
    /\ yielded = <<>> /\ failedAt = 0
    /\ result = [ndim |-> 0, rows |-> 0, cols |-> <<>>]

\* Application.__init__ on a new GPRunner, in a process that imported random
Init ==
    /\ args \in ArgsSet
    /\ checkpoint_file \in {"None", "F"}
    /\ gp_runner = NewRunner
    /\ pareto_fronts = <<>>
    /\ initialized = FALSE
    /\ rng = UnseededState
    /\ file = NoFile
    /\ pc = "idle" /\ iterations = 0 /\ ret = 0
    /\ lastEvent = "none" /\ broke = FALSE /\ updates = 0
    /\ lastUpdate = NoUpdate
    /\ callInit = FALSE /\ callStep = 0
    /\ runs = 0 /\ resumes = 0
    /\ OdeIdle

\* the effect of one Application._update() for generation g on the
\* application's variables
DoUpdate(u, g) ==
    /\ pareto_fronts' = u.pareto_fronts
    /\ file' = u.file
    /\ lastUpdate' = [made |-> TRUE, gen |-> g, saved |-> u.saved]

\* run() up to its loop: the pop_size test, and for an app that is not
\* initialised the seeding, gp_runner.init() and the first _update()
RunCall ==
    /\ pc \in {"idle", "returned", "raised"}
    /\ runs < MaxRuns
    /\ runs' = runs + 1
    /\ callInit' = initialized
    /\ callStep' = gp_runner.step_count
    /\ broke' = FALSE
    /\ UNCHANGED <<args, checkpoint_file, initialized, resumes, odeVars>>
    /\ IF args.pop_size < 1
       THEN /\ pc' = "returned" /\ ret' = 0 /\ iterations' = 0
            /\ lastEvent' = "none" /\ updates' = 0 /\ lastUpdate' = NoUpdate
            /\ UNCHANGED <<gp_runner, pareto_fronts, rng, file>>
       ELSE IF ~initialized
       THEN \E d \in EnvDraws :
              LET i == GPRunner_init(gp_runner, Seed(args.seed), args.pop_size, d)
                  u == Application_update(args, checkpoint_file, i.runner,
                                          pareto_fronts, i.rng, file)
              IN /\ gp_runner' = i.runner
                 /\ rng' = i.rng
                 /\ DoUpdate(u, i.runner.step_count)
                 /\ updates' = 1
                 /\ lastEvent' = "init"
                 /\ iterations' = IF u.raised THEN 0 ELSE 1
                 /\ pc' = IF u.raised THEN "raised" ELSE "loop"
                 /\ ret' = 0
       ELSE /\ pc' = "loop" /\ iterations' = 0 /\ ret' = 0
            /\ lastEvent' = "none" /\ updates' = 0 /\ lastUpdate' = NoUpdate
            /\ UNCHANGED <<gp_runner, pareto_fronts, rng, file>>

\* a loop test that takes one step too many
loop_guard_offByOne(r, a) == r.step_count <= a.num_generations

\* first operand of the loop test of run()
loop_guard(r, a) == r.step_count < a.num_generations

\* the loop test: step_count < num_generations and not break_condition(self).
\* break_condition is only called when the first operand is true; it may draw
\* from the global random module.
LoopTest ==
    /\ pc = "loop"
    /\ UNCHANGED <<args, checkpoint_file, gp_runner, pareto_fronts, initialized, file,
                   iterations, updates, lastUpdate, callInit, callStep, runs,
                   resumes, odeVars>>
    /\ IF ~loop_guard(gp_runner, args)
       THEN /\ pc' = "returned" /\ ret' = iterations
            /\ UNCHANGED <<rng, lastEvent, broke>>
       ELSE \E b \in BOOLEAN, d \in EnvDraws :
              /\ rng' = Draw(rng, d)
              /\ lastEvent' = "break_condition"
              /\ broke' = b
              /\ pc' = IF b THEN "returned" ELSE "step"
              /\ ret' = IF b THEN iterations ELSE ret

\* the loop body: gp_runner.step(); self._update(); iterations += 1
Step ==
    /\ pc = "step"
    /\ \E d \in EnvDraws :
         LET s == GPRunner_step(gp_runner, rng, d)
             u == Application_update(args, checkpoint_file, s.runner,
                                     pareto_fronts, s.rng, file)
         IN /\ gp_runner' = s.runner
            /\ rng' = s.rng
            /\ DoUpdate(u, s.runner.step_count)
            /\ updates' = updates + 1
            /\ lastEvent' = "step"
            /\ iterations' = IF u.raised THEN iterations ELSE iterations + 1
            /\ pc' = IF u.raised THEN "raised" ELSE "loop"
    /\ UNCHANGED <<args, checkpoint_file, initialized, ret, broke, callInit,
                   callStep, runs, resumes, odeVars>>

\* from_checkpoint that forgets app.pareto_fronts = cp['pareto_fronts']
from_checkpoint_noFronts(cp) ==
    [args |-> cp.args, gp_runner |-> cp.runner, checkpoint_file |-> "F",
     pareto_fronts |-> <<>>, initialized |-> TRUE,
     rng |-> cp.random_state]

\* Application.from_checkpoint(file_name): the application it builds and the
\* global random state it sets
from_checkpoint(cp) ==
    [args |-> cp.args, gp_runner |-> cp.runner, checkpoint_file |-> "F",
     pareto_fronts |-> cp.pareto_fronts, initialized |-> TRUE,
     rng |-> cp.random_state]

\* Application.from_checkpoint(F), in this process or in a new one started
\* after the old one stopped anywhere
FromCheckpoint ==
    /\ file.exists
    /\ resumes < MaxResumes
    /\ LET app == from_checkpoint(file)
       IN /\ args' = app.args
          /\ gp_runner' = app.gp_runner
          /\ checkpoint_file' = app.checkpoint_file
          /\ pareto_fronts' = app.pareto_fronts
          /\ initialized' = app.initialized
          /\ rng' = app.rng
    /\ pc' = "idle" /\ iterations' = 0 /\ ret' = 0
    /\ lastEvent' = "none" /\ broke' = FALSE
    /\ updates' = 0 /\ lastUpdate' = NoUpdate
    /\ callInit' = FALSE /\ callStep' = 0
    /\ runs' = 0
    /\ resumes' = resumes + 1
    /\ UNCHANGED <<file, odeVars>>

Next == RunCall \/ LoopTest \/ Step \/ FromCheckpoint

Spec == Init /\ [][Next]_vars

\* ------------------------------------------------------ odeint / integrate
\* ode.y after integrating to x[i] (for i = 1: yinit, set by set_initial_value)
OdeY(xs, i) == [nan |-> FALSE, t |-> xs[i]]

NaN == [nan |-> TRUE, t |-> 0]

\* integrate() without the NaN replacement
integrate_result_noNaN(ys, xs, d) ==
    [ndim |-> IF d = 1 THEN 1 ELSE 2, rows |-> d, cols |-> ys]

\* np.vstack(list(res)).T and what integrate() makes of it: n columns of
\* height d; all NaN when the number of columns is not len(x); the only row
\* of a one-row array
integrate_result(ys, xs, d) ==
    LET cols == IF Len(ys) # Len(xs) THEN [i \in 1..Len(xs) |-> NaN] ELSE ys
    IN [ndim |-> IF d = 1 THEN 1 ELSE 2, rows |-> d, cols |-> cols]

NoResult == [ndim |-> 0, rows |-> 0, cols |-> <<>>]

XSet == UNION {[1..n -> 1..MaxX] : n \in 1..MaxLen}

\* an idle application, for the runs that only integrate
AppIdle ==
    /\ args = [pop_size |-> 0, num_generations |-> 0, seed |-> 0,
               checkpoint_frequency |-> [is_int |-> FALSE, n |-> 0]]
    /\ checkpoint_file = "None"
    /\ gp_runner = NewRunner
    /\ pareto_fronts = <<>>
    /\ initialized = FALSE
    /\ rng = UnseededState
    /\ file = NoFile
    /\ pc = "idle" /\ iterations = 0 /\ ret = 0
    /\ lastEvent = "none" /\ broke = FALSE /\ updates = 0
    /\ lastUpdate = NoUpdate
    /\ callInit = FALSE /\ callStep = 0
    /\ runs = 0 /\ resumes = 0

\* integrate(dy, yinit, x) is called
InitOde ==
    /\ AppIdle
    /\ x \in XSet
    /\ dim \in 1..MaxDim
    /\ odepc = "start" /\ idx = 1 /\ yielded = <<>> /\ failedAt = 0
    /\ result = NoResult

\* odeint up to its first yield: set_initial_value(yinit, x[0]); yield ode.y
OdeintStart ==
    /\ odepc = "start"
    /\ yielded' = <<OdeY(x, 1)>>
    /\ idx' = 2
    /\ odepc' = "loop"
    /\ UNCHANGED <<x, dim, failedAt, result, appVars>>

\* one round of the loop over x[1:]: ode.integrate(value); return when it was
\* not successful, yield ode.y otherwise
OdeintNext ==
    /\ odepc = "loop"
    /\ idx <= Len(x)
    /\ \E successful \in BOOLEAN :
         IF ~successful
         THEN odepc' = "done" /\ failedAt' = idx /\ UNCHANGED <<yielded, idx>>
         ELSE /\ yielded' = Append(yielded, OdeY(x, idx))
              /\ idx' = idx + 1
              /\ UNCHANGED <<odepc, failedAt>>
    /\ UNCHANGED <<x, dim, result, appVars>>

\* the loop over x[1:] is exhausted: the generator ends
OdeintEnd ==
    /\ odepc = "loop"
    /\ idx > Len(x)
    /\ odepc' = "done"
    /\ UNCHANGED <<x, dim, idx, yielded, failedAt, result, appVars>>

\* integrate() once list(res) has drained the generator
Integrate ==
    /\ odepc = "done"
    /\ result' = integrate_result(yielded, x, dim)
    /\ odepc' = "integrated"
    /\ UNCHANGED <<x, dim, idx, yielded, failedAt, appVars>>

NextOde == OdeintStart \/ OdeintNext \/ OdeintEnd \/ Integrate

SpecOde == InitOde /\ [][NextOde]_vars

\* ------------------------------------------------------------- properties
Max(a, b) == IF a >= b THEN a ELSE b

\* C1: when run() returns, the count it returns is the number of
\* Application._update() calls it made; when break_condition never returned
\* true that is num_generations + 1 for an app that was not initialised,
\* max(0, num_generations - k) for an app resumed at step_count k, and it is
\* 0 for every app with pop_size < 1.
C1_ReturnCount ==
    pc = "returned" =>
        /\ ret = updates
        /\ args.pop_size < 1 => ret = 0
        /\ (args.pop_size >= 1 /\ ~broke /\ ~callInit) =>
               ret = args.num_generations + 1
        /\ (args.pop_size >= 1 /\ ~broke /\ callInit) =>
               ret = Max(0, args.num_generations - callStep)

\* a resumed app that ran from generation k >= 1 to the end, taking steps
C1_Witness ==
    /\ pc = "returned" /\ ~broke /\ callInit
    /\ callStep >= 1 /\ ret >= 2 /\ ret = args.num_generations - callStep

\* C2: break_condition is called after every evolutionary step: run() does not
\* return with a step as the last thing it did.
C2_BreakAfterEveryStep == pc = "returned" => lastEvent # "step"

\* the condition under which C3 says a checkpoint is written after the update
\* of generation g
CheckpointDue(g) ==
    /\ checkpoint_file # "None"
    /\ args.checkpoint_frequency.is_int
    /\ args.checkpoint_frequency.n # 0
    /\ g % args.checkpoint_frequency.n = 0

\* C3: every Application._update() happens for generation g = step_count and
\* writes the checkpoint (args, runner, global random state, fronts) exactly
\* when checkpoint_file is not None, checkpoint_frequency is an int and
\* g % checkpoint_frequency == 0; nothing else changes the file.
C3_CheckpointEveryN ==
    [][ /\ (resumes' = resumes /\ pareto_fronts' # pareto_fronts) =>
            /\ lastUpdate'.made
            /\ lastUpdate'.gen = gp_runner'.step_count
            /\ lastUpdate'.saved <=> CheckpointDue(lastUpdate'.gen)
            /\ CheckpointDue(lastUpdate'.gen) =>
                   file' = [exists |-> TRUE, args |-> args, runner |-> gp_runner',
                            random_state |-> rng', pareto_fronts |-> pareto_fronts']
            /\ ~CheckpointDue(lastUpdate'.gen) => file' = file
        /\ pareto_fronts' = pareto_fronts => file' = file
      ]_vars

\* with frequency 2: generation 0 was saved, generation 1 was not, and
\* generation 2 has just been saved
C3_Witness ==
    /\ args.checkpoint_frequency.is_int /\ args.checkpoint_frequency.n = 2
    /\ updates = 3
    /\ lastUpdate = [made |-> TRUE, gen |-> 2, saved |-> TRUE]
    /\ file.exists /\ file.runner.step_count = 2 /\ Len(file.pareto_fronts) = 3

\* run() of a new application with no break condition and nothing else using
\* the random module, as one uninterrupted computation
RECURSIVE Evolve(_, _, _, _)
Evolve(a, r, g, pf) ==
    IF ~(r.step_count < a.num_generations)
    THEN [runner |-> r, pareto_fronts |-> pf]
    ELSE LET s == GPRunner_step(r, g, 0)
         IN Evolve(a, s.runner, s.rng, Append(pf, s.runner.halloffame))

UninterruptedRun(a) ==
    LET i == GPRunner_init(NewRunner, Seed(a.seed), a.pop_size, 0)
    IN Evolve(a, i.runner, i.rng, <<i.runner.halloffame>>)

\* C4: from_checkpoint(F) builds an app with the saved args, runner (hence
\* step_count k), fronts and global random state, that checkpoints to F; the
\* run() of a resumed app neither re-seeds nor calls gp_runner.init(), and
\* only takes steps up to num_generations; and when a resumed app whose runner
\* was initialised once returns from run() without a break, its step_count,
\* runner stream position and number of fronts are those of one
\* uninterrupted run.
C4_ResumeContinues ==
    [][ /\ resumes' > resumes =>
            /\ args' = file.args
            /\ gp_runner' = file.runner
            /\ pareto_fronts' = file.pareto_fronts
            /\ rng' = file.random_state
            /\ checkpoint_file' = "F"
            /\ initialized'
        /\ (initialized /\ resumes' = resumes) =>
            /\ gp_runner'.inits = gp_runner.inits
            /\ rng'.seed = rng.seed /\ rng'.pos >= rng.pos
            /\ gp_runner'.step_count \in {gp_runner.step_count, gp_runner.step_count + 1}
            /\ gp_runner'.step_count <= Max(gp_runner.step_count, args.num_generations)
            /\ file' # file => (checkpoint_file = "F" /\ file'.runner = gp_runner')
        /\ (initialized' /\ gp_runner'.inits = 1 /\ pc' = "returned" /\ ~broke') =>
            LET u == UninterruptedRun(args')
            IN /\ gp_runner'.step_count = u.runner.step_count
               /\ gp_runner'.prev_state = u.runner.prev_state
               /\ Len(pareto_fronts') = Len(u.pareto_fronts)
      ]_vars

\* an app resumed from the checkpoint of generation k, 1 <= k < num_generations,
\* has run to the end
C4_Witness ==
    /\ initialized /\ resumes >= 1 /\ gp_runner.inits = 1
    /\ pc = "returned" /\ ~broke
    /\ callInit /\ callStep >= 1 /\ callStep < args.num_generations
    /\ gp_runner.step_count = args.num_generations

\* C5: every random_state block of a runner starts in the state in which the
\* runner's previous block ended (also across a checkpoint and resume, and
\* whatever was drawn from the global module in between); the first block of
\* a runner, which run() starts right after random.seed(args.seed), starts in
\* the seeded state.
C5_OneStream ==
    [][ (resumes' = resumes /\ gp_runner'.blocks = gp_runner.blocks + 1) =>
            /\ gp_runner.blocks >= 1 => gp_runner'.block_start = gp_runner.block_end
            /\ gp_runner.blocks = 0 => gp_runner'.block_start = Seed(args.seed)
            /\ gp_runner'.block_end = gp_runner'.prev_state
      ]_vars

\* three blocks were run and the global module was used in between
C5_Witness ==
    /\ gp_runner.blocks >= 3
    /\ rng.pos >= 2
    /\ gp_runner.block_start # rng
    /\ gp_runner.block_start.pos > 0

\* the full solution y(x_1), ..., y(x_n)
FullSolution == [i \in 1..Len(x) |-> OdeY(x, i)]

\* C6: odeint yields y(x_i) in order, a prefix of the full solution of length
\* 1..len(x) that ends right before the first unsuccessful integration;
\* integrate() returns len(x) columns in every case: the yielded values when
\* all were produced, all NaN otherwise, and a 1-D array for a
\* one-dimensional system.
C6_OdeintPrefix ==
    /\ odepc # "start" =>
        /\ Len(yielded) \in 1..Len(x)
        /\ yielded = SubSeq(FullSolution, 1, Len(yielded))
    /\ odepc \in {"done", "integrated"} =>
        /\ failedAt = 0 => Len(yielded) = Len(x)
        /\ failedAt # 0 => (failedAt >= 2 /\ Len(yielded) = failedAt - 1)
    /\ odepc = "integrated" =>
        /\ Len(result.cols) = Len(x)
        /\ result.rows = dim
        /\ failedAt = 0 => result.cols = FullSolution
        /\ failedAt # 0 => \A i \in 1..Len(x) : result.cols[i] = NaN
        /\ result.ndim = (IF dim = 1 THEN 1 ELSE 2)

\* the integration to the second of three x values failed, in one dimension
C6_Witness ==
    /\ odepc = "integrated" /\ Len(x) = 3 /\ failedAt = 2 /\ dim = 1
    /\ Len(yielded) = 1 /\ result.cols = <<NaN, NaN, NaN>> /\ result.ndim = 1

====
